---- MODULE Spec2Model ----
(***************************************************************************)
(* Conversation memory lifecycle of the chatbot (app/services/             *)
(* memory_service.py): session detection, the hybrid retrieval policy,     *)
(* the turn append with its summarization trigger, and the background      *)
(* summarization (compaction) task.                                        *)
(*                                                                         *)
(* The two tables are modelled as the code uses them:                      *)
(*   chat_history    - rows in created_at order (append only);             *)
(*   customer_memory - one row per customer_phone.                         *)
(* Time is counted in whole hours.  Every coroutine (a chat request, a     *)
(* background save, a background summarization) is a record in a pool and  *)
(* advances one awaited database statement at a time.                      *)
(***************************************************************************)
EXTENDS Integers, Sequences, FiniteSets

VARIABLES now, next_uuid, chat_history, customer_memory,
          requests, saves, summarizers

vars == <<now, next_uuid, chat_history, customer_memory,
          requests, saves, summarizers>>

----------------------------------------------------------------------------
(* Bounds of the model *)

\* Spec: every interleaving of one request, one save and two summarizations
MaxTurns == 12
MaxNow == 25
MaxSessions == 2
MaxRequests == 1
MaxSaves == 1
MaxSummarizers == 2

\* SpecLong: one coroutine after the other, over a long history
MaxTurnsLong == 17

\* SpecPair: two requests in flight, over a short history
MaxTurnsPair == 6
MaxRequestsPair == 2

\* SpecExpiry: two requests around the 24 hour boundary
MaxTurnsExpiry == 6
MaxSessionsExpiry == 3

\* SpecFaults: failing reads and failing saves, two saves pending at once
MaxTurnsFaults == 6
MaxSessionsFaults == 3
MaxSavesFaults == 2

\* SpecTwo: two customers, one session each, within one day
MaxTurnsTwo == 6
MaxSavesTwo == 2
MaxLimit == 6

(* Program constants (MemoryService.__init__) *)

max_conversation_turns == 5
hybrid_memory_threshold == 6
session_timeout_hours == 24

\* the customers (ChatRequest.phone_number)
Phones == {"p1", "p2"}

\* the customer of the specifications that follow one customer
OneCustomer == {"p1"}

----------------------------------------------------------------------------
(* Values *)

None == [none |-> TRUE]

\* the sentinel summary "New customer" written by the first turn append
NewCustomer == [session_id |-> 0, turns |-> 0]

NoRow == [absent |-> TRUE]

NoResult == [session_id |-> 0, created_at |-> 0, session_turn_count |-> 0,
             summary |-> None, total_conversations |-> 0,
             last_summary_turn |-> 0]

Min(a, b) == IF a <= b THEN a ELSE b

Max(a, b) == IF a >= b THEN a ELSE b

RECURSIVE Reverse(_)
Reverse(s) == IF s = <<>> THEN <<>> ELSE Append(Reverse(Tail(s)), Head(s))

----------------------------------------------------------------------------
(* Queries on chat_history *)

\* WHERE customer_phone = $1 AND session_id = $2 ORDER BY created_at ASC
SessionRows(phone, sid) ==
    SelectSeq(chat_history,
              LAMBDA r : r.customer_phone = phone /\ r.session_id = sid)

\* a variant: the rows of every customer
AllRows(phone) == chat_history

\* WHERE customer_phone = $1 ORDER BY created_at ASC
PhoneRows(phone) ==
    SelectSeq(chat_history, LAMBDA r : r.customer_phone = phone)

\* SELECT COUNT(*) ... WHERE customer_phone = $1 AND session_id = $2
SessionCount(phone, sid) == Len(SessionRows(phone, sid))

Ids(rows) == [i \in 1..Len(rows) |-> rows[i].id]

\* a variant: the oldest `limit` rows instead of the newest
FetchOldest(phone, sid, limit) ==
    LET rows == SessionRows(phone, sid)
    IN  Ids(SubSeq(rows, 1, Min(limit, Len(rows))))

\* a variant: LIMIT ignored
FetchUnlimited(phone, sid, limit) == Ids(SessionRows(phone, sid))

\* a variant: the rows are not put back in chronological order
FetchNewestFirst(phone, sid, limit) ==
    LET desc == Reverse(SessionRows(phone, sid))
    IN  Ids(SubSeq(desc, 1, Min(limit, Len(desc))))

\* _fetch_conversation_history: ORDER BY created_at DESC LIMIT $3, reversed
_fetch_conversation_history(phone, sid, limit) ==
    LET desc == Reverse(SessionRows(phone, sid))
        history_results == SubSeq(desc, 1, Min(limit, Len(desc)))
    IN  Ids(Reverse(history_results))

\* the single query of get_conversation_context_optimized: the latest row of
\* the customer, the size of its session, LEFT JOIN the customer_memory row
ContextQuery(phone) ==
    LET rows == PhoneRows(phone)
        lc == rows[Len(rows)]
        cd == customer_memory[phone]
    IN  IF rows = <<>> THEN NoResult
        ELSE [session_id |-> lc.session_id,
              created_at |-> lc.created_at,
              session_turn_count |-> SessionCount(phone, lc.session_id),
              summary |-> IF cd = NoRow THEN None ELSE cd.summary,
              total_conversations |->
                  IF cd = NoRow THEN 0 ELSE cd.total_conversations,
              last_summary_turn |->
                  IF cd = NoRow THEN 0 ELSE cd.last_summary_turn]

----------------------------------------------------------------------------
(* Pure helpers of MemoryService *)

\* a variant: the sentinel summary is formatted like any other
FormatAnySummary(summary, total_conversations, last_interaction, current_time) ==
    IF summary = None THEN None
    ELSE [intro |-> "Active customer", days_ago |-> 0,
          total_conversations |-> total_conversations, summary |-> summary]

\* _format_customer_summary
_format_customer_summary(summary, total_conversations, last_interaction, current_time) ==
    IF summary = None \/ summary = NewCustomer THEN None
    ELSE LET time_since_last == current_time - last_interaction
         IN  IF time_since_last > 24
             THEN [intro |-> "Returning customer",
                   days_ago |-> Max(1, time_since_last \div 24),
                   total_conversations |-> total_conversations,
                   summary |-> summary]
             ELSE [intro |-> "Active customer",
                   days_ago |-> 0,
                   total_conversations |-> total_conversations,
                   summary |-> summary]

\* a variant: a session expires when it reaches the timeout
ExpiredAtTimeout(created_at, now_malaysia) ==
    (now_malaysia - created_at) * 3600 >= session_timeout_hours * 3600

\* session_expired of get_conversation_context_optimized
session_expired(created_at, now_malaysia) ==
    (now_malaysia - created_at) * 3600 > session_timeout_hours * 3600

\* a variant: the limit is not capped
RecentUncapped(session_turn_count, last_summary_turn) ==
    session_turn_count - last_summary_turn

\* recent_turns_to_include of _handle_active_session
recent_turns_to_include(session_turn_count, last_summary_turn) ==
    Min(session_turn_count - last_summary_turn, 5)

\* a variant: a trigger every 5 turns counted from 5
TriggerEveryFive(session_turn_count) ==
    session_turn_count >= 5 /\ session_turn_count % 5 = 0

\* a variant: the first trigger only, the cycle of 5 forgotten
TriggerOnce(session_turn_count) == session_turn_count = 6

\* should_trigger_summary of _save_chat_to_db
should_trigger_summary(session_turn_count) ==
    \/ session_turn_count = 6
    \/ (session_turn_count > 6 /\ (session_turn_count - 6) % 5 = 0)

\* a variant: the trigger turn itself counted as summarized
WatermarkAtTrigger(current_turn, conversations) ==
    IF current_turn # 0 THEN current_turn ELSE conversations

\* last_summary_turn of _summarize_conversations_background
\* (current_turn = 0 stands for the default None)
last_summary_turn_of(current_turn, conversations) ==
    (IF current_turn # 0 THEN current_turn ELSE conversations) - 1

----------------------------------------------------------------------------
(* Coroutines *)

\* a chat request: ChatbotFlowService.process_chat_message
NewRequest(phone, k) ==
    [k |-> k, customer_phone |-> phone, pc |-> "context", state |-> "",
     now_malaysia |-> 0, result |-> NoResult, session_id |-> 0,
     fetch_session |-> 0, limit |-> 0, history |-> <<>>,
     customer_summary |-> None, use_hybrid |-> FALSE, scheduled |-> 0]

\* a background save: MemoryService._save_chat_to_db
NewSave(phone, sid, k) ==
    [k |-> k, customer_phone |-> phone, session_id |-> sid, pc |-> "new",
     created_at |-> 0, memory |-> NoRow, session_turn_count |-> 0]

\* a background summarization: _summarize_conversations_background
\* (current_turn = 0 stands for the default None)
NewSummarizer(phone, sid, current_turn) ==
    [customer_phone |-> phone, session_id |-> sid,
     current_turn |-> current_turn, pc |-> "load", conversations |-> 0]

FreeSlot(pool) ==
    CHOOSE k \in 1..(Cardinality(pool) + 1) : \A t \in pool : t.k # k

\* asyncio.create_task of a summarization; the pool is bounded
CanSpawn(task) ==
    task \in summarizers \/ Cardinality(summarizers) < MaxSummarizers

\* a variant: the upsert takes no row lock
NeverLocked(phone) == phone \notin Phones

\* the customer_memory row is locked by a save transaction that has run its
\* upsert and has not yet committed
RowLocked(phone) ==
    \E t \in saves : t.customer_phone = phone /\ t.pc = "executed"

\* generate_session_id: uuid4 never returns an id it returned before; the
\* ids are numbered in the order of their generation, at most max of them
CanGenerate(max) == next_uuid <= max

\* a variant: the value returned on an error keeps the session id read
KeepsSessionOnError(r, state, result, history, sid, summary, hybrid, scheduled) ==
    [r EXCEPT !.pc = "answer", !.state = state, !.now_malaysia = now,
              !.result = result, !.history = history,
              !.session_id = IF state = "Error" /\ r.session_id # 0
                             THEN r.session_id ELSE sid,
              !.customer_summary = summary, !.use_hybrid = hybrid,
              !.scheduled = scheduled]

\* a variant: the id generated last is returned once more
ReusedSessionId == IF next_uuid > 1 THEN next_uuid - 1 ELSE next_uuid

generate_session_id == next_uuid

Init ==
    /\ now = 0
    /\ next_uuid = 1
    /\ chat_history = <<>>
    /\ customer_memory = [p \in Phones |-> NoRow]
    /\ requests = {}
    /\ saves = {}
    /\ summarizers = {}

----------------------------------------------------------------------------
(* GetContext: get_conversation_context_optimized *)

\* process_chat_message is entered for a customer
StartRequest(phone, max) ==
    /\ Cardinality(requests) < max
    /\ requests' = requests \cup {NewRequest(phone, FreeSlot(requests))}
    /\ UNCHANGED <<now, next_uuid, chat_history, customer_memory, saves,
                   summarizers>>

\* the value returned to the caller
Returned(r, state, result, history, sid, summary, hybrid, scheduled) ==
    [r EXCEPT !.pc = "answer", !.state = state, !.now_malaysia = now,
              !.result = result, !.history = history, !.session_id = sid,
              !.customer_summary = summary, !.use_hybrid = hybrid,
              !.scheduled = scheduled]

\* the session read and the plan (lines 67-114, 121-136, 159-166, 176-225)
GetContextQuery(r) ==
    /\ r \in requests
    /\ r.pc = "context"
    /\ LET result == ContextQuery(r.customer_phone)
           count == result.session_turn_count
           formatted == _format_customer_summary(result.summary,
                            result.total_conversations, result.created_at, now)
           recent == recent_turns_to_include(count, result.last_summary_turn)
           fetching(state, sid, from, limit) ==
               [r EXCEPT !.pc = "fetch", !.state = state,
                         !.now_malaysia = now, !.result = result,
                         !.session_id = sid, !.fetch_session = from,
                         !.limit = limit]
       IN  IF result = NoResult
           THEN \* no previous conversations
                /\ next_uuid' = next_uuid + 1
                /\ requests' = (requests \ {r}) \cup
                      {Returned(r, "NoHistory", result, <<>>, generate_session_id,
                                None, FALSE, 0)}
           ELSE IF session_expired(result.created_at, now)
           THEN \* _handle_expired_session
                /\ next_uuid' = next_uuid + 1
                /\ IF count <= max_conversation_turns
                   THEN requests' = (requests \ {r}) \cup
                          {fetching("Expired", generate_session_id, result.session_id,
                                    max_conversation_turns)}
                   ELSE requests' = (requests \ {r}) \cup
                          {Returned(r, "Expired", result, <<>>, generate_session_id,
                                    formatted, TRUE, 0)}
           ELSE \* _handle_active_session
                /\ UNCHANGED next_uuid
                /\ IF count >= hybrid_memory_threshold
                   THEN IF recent > 0
                        THEN requests' = (requests \ {r}) \cup
                               {fetching("Active", result.session_id,
                                         result.session_id, recent)}
                        ELSE IF count = 6
                        THEN requests' = (requests \ {r}) \cup
                               {fetching("Active", result.session_id,
                                         result.session_id, 5)}
                        ELSE requests' = (requests \ {r}) \cup
                               {Returned(r, "Active", result, <<>>,
                                         result.session_id, formatted, TRUE, 0)}
                   ELSE requests' = (requests \ {r}) \cup
                          {fetching("Active", result.session_id,
                                    result.session_id, max_conversation_turns)}
    /\ UNCHANGED <<now, chat_history, customer_memory, saves, summarizers>>

\* the turn fetch and the return (lines 139-157, 209-235)
GetContextFetch(r) ==
    /\ r \in requests
    /\ r.pc = "fetch"
    /\ LET history == _fetch_conversation_history(r.customer_phone,
                          r.fetch_session, r.limit)
           formatted == _format_customer_summary(r.result.summary,
                            r.result.total_conversations, r.result.created_at,
                            r.now_malaysia)
           task == NewSummarizer(r.customer_phone, r.fetch_session, 0)
       IN  IF r.state = "Expired"
           THEN /\ CanSpawn(task)
                /\ summarizers' = summarizers \cup {task}
                /\ requests' = (requests \ {r}) \cup
                      {Returned(r, r.state, r.result, history, r.session_id,
                                formatted, formatted # None, r.fetch_session)}
           ELSE /\ UNCHANGED summarizers
                /\ requests' = (requests \ {r}) \cup
                      {Returned(r, r.state, r.result, history, r.session_id,
                                IF r.result.session_turn_count >=
                                       hybrid_memory_threshold
                                THEN formatted ELSE None,
                                r.result.session_turn_count >=
                                    hybrid_memory_threshold, 0)}
    /\ UNCHANGED <<now, next_uuid, chat_history, customer_memory, saves>>

\* an exception in the session read or in the turn fetch (lines 116-119)
GetContextError(r) ==
    /\ r \in requests
    /\ r.pc \in {"context", "fetch"}
    /\ next_uuid' = next_uuid + 1
    /\ requests' = (requests \ {r}) \cup
          {Returned(r, "Error", r.result, <<>>, generate_session_id, None, FALSE, 0)}
    /\ UNCHANGED <<now, chat_history, customer_memory, saves, summarizers>>

----------------------------------------------------------------------------
(* RecordTurn: save_chat_async and _save_chat_to_db *)

\* step 7 of process_chat_message: save_chat_async creates the save task
SaveChatAsync(r) ==
    /\ r \in requests
    /\ r.pc = "answer"
    /\ saves' = saves \cup
          {NewSave(r.customer_phone, r.session_id, FreeSlot(saves))}
    /\ requests' = requests \ {r}
    /\ UNCHANGED <<now, next_uuid, chat_history, customer_memory, summarizers>>

\* steps 3-5 of process_chat_message raise: the request ends without a save
RequestFails(r) ==
    /\ r \in requests
    /\ r.pc = "answer"
    /\ requests' = requests \ {r}
    /\ UNCHANGED <<now, next_uuid, chat_history, customer_memory, saves,
                   summarizers>>

\* a variant: an append on an existing row puts the sentinel summary back
UpsertResetsSummary(old, at) ==
    IF old = NoRow
    THEN [summary |-> NewCustomer, total_conversations |-> 1,
          first_interaction |-> at, last_interaction |-> at,
          customer_type |-> "new", interaction_frequency |-> "low",
          updated_at |-> at, last_summary_turn |-> 0]
    ELSE [old EXCEPT
            !.summary = NewCustomer,
            !.total_conversations = old.total_conversations + 1,
            !.last_interaction = at,
            !.updated_at = at]

\* the customer_memory upsert of _save_chat_to_db (lines 337-355)
SaveUpsert(old, at) ==
    IF old = NoRow
    THEN [summary |-> NewCustomer, total_conversations |-> 1,
          first_interaction |-> at, last_interaction |-> at,
          customer_type |-> "new", interaction_frequency |-> "low",
          updated_at |-> at, last_summary_turn |-> 0]
    ELSE [old EXCEPT
            !.total_conversations = old.total_conversations + 1,
            !.last_interaction = at,
            !.customer_type =
                IF old.total_conversations >= 10 THEN "loyal"
                ELSE IF old.total_conversations >= 3 THEN "returning"
                ELSE "new",
            !.interaction_frequency =
                IF at - old.last_interaction < 24 THEN "high"
                ELSE IF at - old.last_interaction < 168 THEN "medium"
                ELSE "low",
            !.updated_at = at]

\* the statements of the transaction (lines 327-385): insert, upsert, count,
\* and the summarization task created before the transaction commits
SaveExecute(t) ==
    /\ t \in saves
    /\ t.pc = "new"
    /\ ~RowLocked(t.customer_phone)
    /\ LET session_turn_count ==
               SessionCount(t.customer_phone, t.session_id) + 1
           task == NewSummarizer(t.customer_phone, t.session_id,
                                 session_turn_count)
       IN  /\ saves' = (saves \ {t}) \cup
                 {[t EXCEPT !.pc = "executed", !.created_at = now,
                            !.memory = SaveUpsert(
                                customer_memory[t.customer_phone], now),
                            !.session_turn_count = session_turn_count]}
           /\ IF should_trigger_summary(session_turn_count)
              THEN /\ CanSpawn(task)
                   /\ summarizers' = summarizers \cup {task}
              ELSE UNCHANGED summarizers
    /\ UNCHANGED <<now, next_uuid, chat_history, customer_memory, requests>>

\* a variant: a turn of the session of the latest stored turn replaces it
CommitReplacesLast(t) ==
    /\ t \in saves
    /\ t.pc = "executed"
    /\ LET n == Len(chat_history)
           row == [customer_phone |-> t.customer_phone,
                   session_id |-> t.session_id, created_at |-> t.created_at,
                   id |-> Len(PhoneRows(t.customer_phone)) + 1]
       IN  chat_history' =
               IF n > 0 /\ chat_history[n].session_id = t.session_id
               THEN [chat_history EXCEPT ![n] = row]
               ELSE Append(chat_history, row)
    /\ customer_memory' =
          [customer_memory EXCEPT ![t.customer_phone] = t.memory]
    /\ saves' = saves \ {t}
    /\ UNCHANGED <<now, next_uuid, requests, summarizers>>

\* the transaction commits: the row and the counters become visible
SaveCommit(t) ==
    /\ t \in saves
    /\ t.pc = "executed"
    /\ chat_history' = Append(chat_history,
          [customer_phone |-> t.customer_phone, session_id |-> t.session_id,
           created_at |-> t.created_at,
           id |-> Len(PhoneRows(t.customer_phone)) + 1])
    /\ customer_memory' =
          [customer_memory EXCEPT ![t.customer_phone] = t.memory]
    /\ saves' = saves \ {t}
    /\ UNCHANGED <<now, next_uuid, requests, summarizers>>

\* a variant: a failed transaction leaves its counter update behind
RollbackKeepsCounters(t) ==
    /\ t \in saves
    /\ saves' = saves \ {t}
    /\ customer_memory' =
          IF t.pc = "executed"
          THEN [customer_memory EXCEPT ![t.customer_phone] = t.memory]
          ELSE customer_memory
    /\ UNCHANGED <<now, next_uuid, chat_history, requests, summarizers>>

\* an exception inside the transaction or at its commit: rollback, the
\* exception is printed and swallowed (lines 389-392)
SaveRollback(t) ==
    /\ t \in saves
    /\ saves' = saves \ {t}
    /\ UNCHANGED <<now, next_uuid, chat_history, customer_memory, requests,
                   summarizers>>

----------------------------------------------------------------------------
(* Compaction: _summarize_conversations_background *)

\* the text the summarizer returns for the conversations it was given: it is
\* known only by the session and the number of turns it was made from,
\* whichever of summarize_conversation and update_customer_summary made it
SummaryOf(sid, conversations) == [session_id |-> sid, turns |-> conversations]

\* the session's rows are loaded, the existing summary is read and the
\* summarizer is called (lines 402-437)
SummarizeLoad(t) ==
    /\ t \in summarizers
    /\ t.pc = "load"
    /\ LET conversations == SessionCount(t.customer_phone, t.session_id)
       IN  IF conversations < 1
           THEN summarizers' = summarizers \ {t}
           ELSE summarizers' = (summarizers \ {t}) \cup
                   {[t EXCEPT !.pc = "save",
                              !.conversations = conversations]}
    /\ UNCHANGED <<now, next_uuid, chat_history, customer_memory, requests,
                   saves>>

\* a variant: the upsert moves the watermark and keeps the stored summary
UpsertWatermarkOnly(old, new_summary, at, last_summary_turn) ==
    IF old = NoRow
    THEN [summary |-> new_summary, total_conversations |-> 1,
          first_interaction |-> at, last_interaction |-> at,
          customer_type |-> "new", interaction_frequency |-> "low",
          updated_at |-> at, last_summary_turn |-> last_summary_turn]
    ELSE [old EXCEPT !.updated_at = at,
                     !.last_summary_turn = last_summary_turn]

\* a variant: the upsert of the summarization also stamps last_interaction
UpsertTouchesInteraction(old, new_summary, at, last_summary_turn) ==
    IF old = NoRow
    THEN [summary |-> new_summary, total_conversations |-> 1,
          first_interaction |-> at, last_interaction |-> at,
          customer_type |-> "new", interaction_frequency |-> "low",
          updated_at |-> at, last_summary_turn |-> last_summary_turn]
    ELSE [old EXCEPT !.summary = new_summary, !.updated_at = at,
                     !.last_interaction = at,
                     !.last_summary_turn = last_summary_turn]

\* the customer_memory upsert of the summarization (lines 446-454)
SummaryUpsert(old, new_summary, at, last_summary_turn) ==
    IF old = NoRow
    THEN [summary |-> new_summary, total_conversations |-> 1,
          first_interaction |-> at, last_interaction |-> at,
          customer_type |-> "new", interaction_frequency |-> "low",
          updated_at |-> at, last_summary_turn |-> last_summary_turn]
    ELSE [old EXCEPT !.summary = new_summary, !.updated_at = at,
                     !.last_summary_turn = last_summary_turn]

\* the summary and the watermark are written (lines 445-454)
SummarizeSave(t) ==
    /\ t \in summarizers
    /\ t.pc = "save"
    /\ ~RowLocked(t.customer_phone)
    /\ customer_memory' =
          [customer_memory EXCEPT ![t.customer_phone] =
              SummaryUpsert(@, SummaryOf(t.session_id, t.conversations), now,
                  last_summary_turn_of(t.current_turn, t.conversations))]
    /\ summarizers' = summarizers \ {t}
    /\ UNCHANGED <<now, next_uuid, chat_history, requests, saves>>

\* a variant: the failing task has already moved the watermark
FailsAfterWatermark(t) ==
    /\ t \in summarizers
    /\ summarizers' = summarizers \ {t}
    /\ customer_memory' =
          IF customer_memory[t.customer_phone] = NoRow THEN customer_memory
          ELSE [customer_memory EXCEPT
                   ![t.customer_phone].last_summary_turn =
                       last_summary_turn_of(t.current_turn, t.conversations)]
    /\ UNCHANGED <<now, next_uuid, chat_history, requests, saves>>

\* an exception at any await of the task, or the process ends: the task is
\* gone and nothing is written (lines 459-462)
SummarizeFails(t) ==
    /\ t \in summarizers
    /\ summarizers' = summarizers \ {t}
    /\ UNCHANGED <<now, next_uuid, chat_history, customer_memory, requests,
                   saves>>

----------------------------------------------------------------------------
(* The clock: get_malaysia_time *)

Tick(d) ==
    /\ now + d <= MaxNow
    /\ now' = now + d
    /\ UNCHANGED <<next_uuid, chat_history, customer_memory, requests, saves,
                   summarizers>>

TickSteps == {25}

\* the session read of request r will call generate_session_id
NewSessionNeeded(r) ==
    LET result == ContextQuery(r.customer_phone)
    IN  result = NoResult \/ session_expired(result.created_at, now)

\* the session read of request r, with at most ids session ids generated
QueryWithin(r, ids) ==
    /\ NewSessionNeeded(r) => CanGenerate(ids)
    /\ GetContextQuery(r)

Next ==
    \/ \E p \in OneCustomer : StartRequest(p, MaxRequests)
    \/ \E r \in requests : QueryWithin(r, MaxSessions)
    \/ \E r \in requests : GetContextFetch(r)
    \/ \E r \in requests : Cardinality(saves) < MaxSaves /\ SaveChatAsync(r)
    \/ Len(chat_history) < MaxTurns /\ \E t \in saves : SaveExecute(t)
    \/ \E t \in saves : SaveCommit(t)
    \/ \E t \in summarizers : SummarizeLoad(t)
    \/ \E t \in summarizers : SummarizeSave(t)
    \/ \E t \in summarizers : SummarizeFails(t)
    \/ \E d \in TickSteps : Tick(d)

Spec == Init /\ [][Next]_vars

\* the same coroutines run one after the other: a request starts only when
\* no save and no summarization is pending
NextLong ==
    \/ /\ saves = {}
       /\ summarizers = {}
       /\ \E p \in OneCustomer : StartRequest(p, MaxRequests)
    \/ \E r \in requests : QueryWithin(r, MaxSessions)
    \/ \E r \in requests : GetContextFetch(r)
    \/ \E r \in requests : Cardinality(saves) < MaxSaves /\ SaveChatAsync(r)
    \/ Len(chat_history) < MaxTurnsLong /\ \E t \in saves : SaveExecute(t)
    \/ \E t \in saves : SaveCommit(t)
    \/ \E t \in summarizers : SummarizeLoad(t)
    \/ \E t \in summarizers : SummarizeSave(t)
    \/ \E t \in summarizers : SummarizeFails(t)
    \/ \E d \in TickSteps : Tick(d)

SpecLong == Init /\ [][NextLong]_vars

\* two requests of the same customer in flight, within one day
NextPair ==
    \/ \E p \in OneCustomer : StartRequest(p, MaxRequestsPair)
    \/ \E r \in requests : QueryWithin(r, MaxSessions)
    \/ \E r \in requests : GetContextFetch(r)
    \/ \E r \in requests : Cardinality(saves) < MaxSaves /\ SaveChatAsync(r)
    \/ Len(chat_history) < MaxTurnsPair /\ \E t \in saves : SaveExecute(t)
    \/ \E t \in saves : SaveCommit(t)
    \/ \E t \in summarizers : SummarizeLoad(t)
    \/ \E t \in summarizers : SummarizeSave(t)
    \/ \E t \in summarizers : SummarizeFails(t)

SpecPair == Init /\ [][NextPair]_vars

\* the clock advanced to the session timeout and one hour past it
TickStepsExpiry == {1, 24}

\* two requests of the same customer in flight, around the session timeout
NextExpiry ==
    \/ /\ saves = {}
       /\ summarizers = {}
       /\ \E p \in OneCustomer : StartRequest(p, MaxRequestsPair)
    \/ \E r \in requests : QueryWithin(r, MaxSessionsExpiry)
    \/ \E r \in requests : GetContextFetch(r)
    \/ \E r \in requests : Cardinality(saves) < MaxSaves /\ SaveChatAsync(r)
    \/ Len(chat_history) < MaxTurnsExpiry /\ \E t \in saves : SaveExecute(t)
    \/ \E t \in saves : SaveCommit(t)
    \/ \E t \in summarizers : SummarizeLoad(t)
    \/ \E t \in summarizers : SummarizeSave(t)
    \/ \E t \in summarizers : SummarizeFails(t)
    \/ /\ requests = {}
       /\ saves = {}
       /\ \E d \in TickStepsExpiry : now + d >= session_timeout_hours /\ Tick(d)

SpecExpiry == Init /\ [][NextExpiry]_vars

\* the coroutines of Spec, with the failures of the session
\* read, of the turn fetch, of the answer and of the save transaction
NextFaults ==
    \/ \E p \in OneCustomer : StartRequest(p, MaxRequests)
    \/ \E r \in requests : QueryWithin(r, MaxSessionsFaults)
    \/ \E r \in requests : GetContextFetch(r)
    \/ \E r \in requests : CanGenerate(MaxSessionsFaults) /\ GetContextError(r)
    \/ \E r \in requests :
          Cardinality(saves) < MaxSavesFaults /\ SaveChatAsync(r)
    \/ \E r \in requests : RequestFails(r)
    \/ Len(chat_history) < MaxTurnsFaults /\ \E t \in saves : SaveExecute(t)
    \/ \E t \in saves : SaveCommit(t)
    \/ \E t \in saves : SaveRollback(t)
    \/ \E t \in summarizers : SummarizeLoad(t)
    \/ \E t \in summarizers : SummarizeSave(t)
    \/ \E t \in summarizers : SummarizeFails(t)
    \/ saves = {} /\ summarizers = {} /\ \E d \in TickSteps : Tick(d)

SpecFaults == Init /\ [][NextFaults]_vars

\* the coroutines of two customers interleaved, within one day
NextTwo ==
    \/ \E p \in Phones : StartRequest(p, MaxRequestsPair)
    \/ \E r \in requests : QueryWithin(r, MaxSessions)
    \/ \E r \in requests : GetContextFetch(r)
    \/ \E r \in requests :
          Cardinality(saves) < MaxSavesTwo /\ SaveChatAsync(r)
    \/ Len(chat_history) < MaxTurnsTwo /\ \E t \in saves : SaveExecute(t)
    \/ \E t \in saves : SaveCommit(t)
    \/ \E t \in summarizers : SummarizeLoad(t)
    \/ \E t \in summarizers : SummarizeSave(t)
    \/ \E t \in summarizers : SummarizeFails(t)

SpecTwo == Init /\ [][NextTwo]_vars

\* one customer, one request and one save at a time over a long history,
\* while compactions may stay pending across any number of turns
NextLate ==
    \/ /\ saves = {}
       /\ \E p \in OneCustomer : StartRequest(p, MaxRequests)
    \/ \E r \in requests : QueryWithin(r, MaxSessions)
    \/ \E r \in requests : GetContextFetch(r)
    \/ \E r \in requests : Cardinality(saves) < MaxSaves /\ SaveChatAsync(r)
    \/ Len(chat_history) < MaxTurnsLong /\ \E t \in saves : SaveExecute(t)
    \/ \E t \in saves : SaveCommit(t)
    \/ \E t \in summarizers : SummarizeLoad(t)
    \/ \E t \in summarizers : SummarizeSave(t)
    \/ \E t \in summarizers : SummarizeFails(t)

SpecLate == Init /\ [][NextLate]_vars

\* two customers whose requests start while no save and no compaction is
\* pending: the tables in which turns of two customers or of two sessions of
\* one customer lie between one another
NextTables ==
    \/ /\ saves = {}
       /\ summarizers = {}
       /\ \E p \in Phones : StartRequest(p, MaxRequestsPair)
    \/ \E r \in requests : QueryWithin(r, MaxSessions)
    \/ \E r \in requests : GetContextFetch(r)
    \/ \E r \in requests : Cardinality(saves) < MaxSavesTwo /\ SaveChatAsync(r)
    \/ Len(chat_history) < MaxTurnsTwo /\ \E t \in saves : SaveExecute(t)
    \/ \E t \in saves : SaveCommit(t)
    \/ \E t \in summarizers : SummarizeLoad(t)
    \/ \E t \in summarizers : SummarizeSave(t)
    \/ \E t \in summarizers : SummarizeFails(t)

SpecTables == Init /\ [][NextTables]_vars

----------------------------------------------------------------------------
(* Properties *)

\* the requests whose GetContext has returned
Answered == {r \in requests : r.pc = "answer"}

\* the session of the customer's most recent turn (0: no turn yet)
CurrentSession(p) == ContextQuery(p).session_id

\* the customer's current session is active and in hybrid mode
ActiveHybrid(p) ==
    LET res == ContextQuery(p)
    IN  /\ res # NoResult
        /\ ~session_expired(res.created_at, now)
        /\ res.session_turn_count >= hybrid_memory_threshold

\* the turn count of the latest append of a session of c turns that
\* triggered a summarization
LatestTrigger(c) ==
    CHOOSE n \in 1..c :
        /\ should_trigger_summary(n)
        /\ \A m \in (n + 1)..c : ~should_trigger_summary(m)

\* C1: whatever the customer's state and whatever appends and compactions
\* interleave with the read and the fetch, GetContext returns at most 5 turns.
C1_AtMostFiveTurns == \A r \in requests : Len(r.history) <= 5

\* C1 witness: a session of more than 6 turns, of which 5 are returned
C1_Witness ==
    \E r \in Answered :
        /\ r.state = "Active"
        /\ r.result.session_turn_count >= 7
        /\ Len(r.history) = 5

\* C2: while the same session is current, no step lowers the customer's
\* last_summary_turn (a compaction carrying a smaller watermark than the
\* stored one does not overwrite it).
C2_WatermarkNeverDecreases ==
    [][\A p \in Phones :
          (customer_memory[p] # NoRow /\ CurrentSession(p)' = CurrentSession(p))
          => customer_memory'[p].last_summary_turn
                 >= customer_memory[p].last_summary_turn]_vars

ReadActive(r) ==
    /\ r.result # NoResult
    /\ ~session_expired(r.result.created_at, r.now_malaysia)

\* the session that request r read has received no turn since the read
Unchanged(r) ==
    SessionCount(r.customer_phone, r.result.session_id)
        = r.result.session_turn_count

\* the session ids held by a stored turn or by a coroutine
HeldIds ==
    {chat_history[i].session_id : i \in 1..Len(chat_history)}
    \cup {r.session_id : r \in requests}
    \cup {t.session_id : t \in saves}
    \cup {t.session_id : t \in summarizers}

\* C4: for an active session read with turnCount >= 6, GetContext returns
\* useHybrid = TRUE and fetches min(turnCount - lastSummaryTurn, 5) turns,
\* except 5 turns when turnCount = 6 and turnCount - lastSummaryTurn = 0.
C4_HybridFetchCount ==
    \A r \in Answered :
        LET c == r.result.session_turn_count
            l == r.result.last_summary_turn
        IN  (ReadActive(r) /\ c >= 6) =>
               /\ r.use_hybrid
               /\ Len(r.history) =
                      IF c = 6 /\ c - l = 0 THEN 5 ELSE Min(c - l, 5)

\* C5: the append that observes session turn count c starts a compaction
\* if and only if c is one of 6, 11, 16, 21, ...
C5_TriggerExactlyAtCycle ==
    [][\A t \in saves : \A u \in saves' :
          (t.k = u.k /\ t.pc = "new" /\ u.pc = "executed") =>
              LET c == u.session_turn_count
                  task == NewSummarizer(t.customer_phone, t.session_id, c)
              IN  IF c >= 6 /\ c % 5 = 1
                  THEN summarizers' = summarizers \cup {task}
                  ELSE summarizers' = summarizers]_vars

\* C5 witness: the append that observes 11 turns has started a compaction
C5_Witness ==
    \E t \in saves :
        /\ t.pc = "executed"
        /\ t.session_turn_count = 11
        /\ NewSummarizer(t.customer_phone, t.session_id, 11) \in summarizers

\* C6: a compaction that writes replaces the summary by the text made from
\* the turns it loaded and sets last_summary_turn to n - 1, n the turn count
\* observed by the append that triggered it, or to k - 1, k the number of
\* turns it loaded, when it was scheduled for an expired session.
C6_WatermarkIsTriggerMinusOne ==
    [][\A t \in summarizers :
          (t.pc = "save" /\ t \notin summarizers'
              /\ customer_memory' # customer_memory) =>
              LET row == customer_memory'[t.customer_phone]
              IN  /\ row.summary = SummaryOf(t.session_id, t.conversations)
                  /\ row.last_summary_turn =
                         IF t.current_turn # 0 THEN t.current_turn - 1
                         ELSE t.conversations - 1]_vars

\* C6 witness: the compaction triggered at turn 11 has written watermark 10
C6_Witness ==
    \E p \in Phones :
        /\ customer_memory[p] # NoRow
        /\ customer_memory[p].last_summary_turn = 10
        /\ customer_memory[p].summary.turns = 11

\* C7: a GetContext that reads a customer without stored turns returns no
\* turns, a session id nothing holds yet, no summary, useHybrid = FALSE, and
\* starts no compaction.
C7_NoHistoryPlan ==
    [][\A r \in requests :
          (r.pc = "context" /\ PhoneRows(r.customer_phone) = <<>>
              /\ r \notin requests') =>
              \E u \in requests' :
                  /\ u.k = r.k
                  /\ u.pc = "answer"
                  /\ u.history = <<>>
                  /\ u.session_id \notin HeldIds
                  /\ u.customer_summary = None
                  /\ u.use_hybrid = FALSE
                  /\ summarizers' = summarizers]_vars

\* C7 witness: a second request of a customer still without stored turns has
\* returned while the save of the first one is pending
C7_Witness ==
    \E r \in Answered :
        /\ r.state = "NoHistory"
        /\ PhoneRows(r.customer_phone) = <<>>
        /\ r.history = <<>>
        /\ \E t \in saves : t.customer_phone = r.customer_phone

\* C8: for an active session read with n turns, 1 <= n <= 5, and not
\* appended to since, GetContext returns exactly the n turns in chronological
\* order, the session's own id, no summary and useHybrid = FALSE, whatever
\* summary is stored.
C8_ActiveRecentOnly ==
    \A r \in Answered :
        (/\ ReadActive(r)
         /\ r.result.session_turn_count \in 1..5
         /\ Unchanged(r)) =>
            /\ r.history =
                   Ids(SessionRows(r.customer_phone, r.result.session_id))
            /\ Len(r.history) = r.result.session_turn_count
            /\ r.session_id = r.result.session_id
            /\ r.customer_summary = None
            /\ r.use_hybrid = FALSE

\* C8 witness: an active session of 5 turns, a stored summary, 5 turns returned
C8_Witness ==
    \E r \in Answered :
        /\ ReadActive(r)
        /\ r.result.session_turn_count = 5
        /\ Unchanged(r)
        /\ r.result.summary # None
        /\ r.result.summary # NewCustomer
        /\ Len(r.history) = 5

\* C9: for an active session read with 6 turns and last_summary_turn still
\* 0, GetContext returns useHybrid = TRUE and 5 turns, and these are turns
\* 1 to 5 of the session.
C9_TurnsOneToFiveVisible ==
    \A r \in Answered :
        (/\ ReadActive(r)
         /\ r.result.session_turn_count = 6
         /\ r.result.last_summary_turn = 0
         /\ Unchanged(r)) =>
            /\ r.use_hybrid
            /\ Len(r.history) = 5
            /\ r.history =
                   Ids(SubSeq(SessionRows(r.customer_phone,
                                          r.result.session_id), 1, 5))

\* two returned requests read the same active session at 6 turns, before
\* being the one that read last_summary_turn = 0 and after the one that read
\* the watermark 5 of the first compaction
BeforeAndAfterLanding(before, after) ==
    /\ before.customer_phone = after.customer_phone
    /\ ReadActive(before)
    /\ ReadActive(after)
    /\ before.result.session_id = after.result.session_id
    /\ before.result.session_turn_count = 6
    /\ after.result.session_turn_count = 6
    /\ before.result.last_summary_turn = 0
    /\ after.result.last_summary_turn = 5
    /\ Unchanged(after)

\* C10 as stated: at the same 6-turn state, the plan returned after the
\* first compaction landed with watermark 5 has the same turns and the same
\* hybrid flag as the plan returned before it landed.
C10_SamePlanAfterLanding ==
    \A before \in Answered : \A after \in Answered :
        BeforeAndAfterLanding(before, after) =>
            /\ after.history = before.history
            /\ after.use_hybrid = before.use_hybrid

\* C10 amended: at the same 6-turn state, the plan returned after the first
\* compaction landed with watermark 5 has the same session id and the same
\* hybrid flag (TRUE) as the plan returned before, but holds 1 turn, the
\* most recent one, where the plan before held the 5 most recent turns.
C10_PlanShrinksAfterLanding ==
    \A before \in Answered : \A after \in Answered :
        BeforeAndAfterLanding(before, after) =>
            LET rows == Ids(SessionRows(after.customer_phone,
                                        after.result.session_id))
            IN  /\ after.session_id = before.session_id
                /\ after.use_hybrid
                /\ before.use_hybrid
                /\ before.history = SubSeq(rows, 2, 6)
                /\ after.history = SubSeq(rows, 6, 6)

\* C10 witness: both plans are held at once
C10_Witness ==
    \E before \in Answered : \E after \in Answered :
        BeforeAndAfterLanding(before, after)

ReadExpired(r) ==
    /\ r.result # NoResult
    /\ session_expired(r.result.created_at, r.now_malaysia)

\* the session ids of the stored turns
StoredIds == {chat_history[i].session_id : i \in 1..Len(chat_history)}

\* C12: when GetContext has read an expired session of k <= 5 turns, not
\* appended to since, its turn fetch returns all k turns of that session
\* oldest first, a session id that differs from the previous one and from
\* every stored one, the summary it read if and only if that is not the
\* sentinel, useHybrid = TRUE exactly when a summary is returned, and starts
\* a compaction of the previous session.
C12_ExpiredShortCarriesTurns ==
    [][\A r \in requests :
          (r.pc = "fetch" /\ ReadExpired(r) /\ Unchanged(r)
              /\ r \notin requests') =>
              \E u \in requests' :
                  /\ u.k = r.k
                  /\ u.pc = "answer"
                  /\ r.result.session_turn_count <= 5
                  /\ u.history =
                         Ids(SessionRows(r.customer_phone, r.result.session_id))
                  /\ Len(u.history) = r.result.session_turn_count
                  /\ u.session_id # r.result.session_id
                  /\ u.session_id \notin StoredIds
                  /\ r.result.summary \in {None, NewCustomer} =>
                         (u.customer_summary = None /\ ~u.use_hybrid)
                  /\ r.result.summary \notin {None, NewCustomer} =>
                         /\ u.customer_summary # None
                         /\ u.customer_summary.summary = r.result.summary
                         /\ u.use_hybrid
                  /\ NewSummarizer(r.customer_phone, r.result.session_id, 0)
                         \in summarizers']_vars

\* C12 witness: an expired session of 2 turns carried forward together with
\* a stored summary, and its compaction started
C12_Witness ==
    \E r \in Answered :
        /\ ReadExpired(r)
        /\ r.result.session_turn_count = 2
        /\ Len(r.history) = 2
        /\ r.use_hybrid
        /\ r.customer_summary # None
        /\ NewSummarizer(r.customer_phone, r.result.session_id, 0)
               \in summarizers

NoTurnBetween(a, b) ==
    /\ a # b
    /\ a.customer_phone = b.customer_phone
    /\ a.state = b.state
    /\ a.result.session_id = b.result.session_id
    /\ a.result.session_turn_count = b.result.session_turn_count
    /\ a.result.created_at = b.result.created_at
    /\ a.result.total_conversations = b.result.total_conversations

\* C14 as stated: two GetContext calls of a customer with no RecordTurn
\* between them return the same session id, the same turns, the same summary,
\* the same hybrid flag and the same scheduled compaction.
C14_IdenticalPlan ==
    \A a \in Answered : \A b \in Answered :
        NoTurnBetween(a, b) =>
            /\ a.session_id = b.session_id
            /\ a.history = b.history
            /\ a.customer_summary = b.customer_summary
            /\ a.use_hybrid = b.use_hybrid
            /\ a.scheduled = b.scheduled

\* C14 amended: two GetContext calls of a customer at the same clock reading,
\* with no RecordTurn and no compaction write between them, return the same
\* turns, the same summary, the same hybrid flag and schedule a compaction of
\* the same session; they return the same session id in the Active state and
\* two different session ids in the NoHistory and Expired states.
C14_SamePlanButFreshId ==
    \A a \in Answered : \A b \in Answered :
        (/\ NoTurnBetween(a, b)
         /\ a.result = b.result
         /\ a.now_malaysia = b.now_malaysia
         /\ Unchanged(a)
         /\ Unchanged(b)) =>
            /\ a.history = b.history
            /\ a.customer_summary = b.customer_summary
            /\ a.use_hybrid = b.use_hybrid
            /\ a.scheduled = b.scheduled
            /\ ReadActive(a) => a.session_id = b.session_id
            /\ ~ReadActive(a) => a.session_id # b.session_id

\* C14 witness: an expired session read twice, both plans held at once
C14_Witness ==
    \E a \in Answered : \E b \in Answered :
        /\ NoTurnBetween(a, b)
        /\ a.result = b.result
        /\ ReadExpired(a)
        /\ a.scheduled # 0
        /\ Len(a.history) >= 2

\* C15: when the session read or the turn fetch of GetContext raises, the
\* request goes on with the plan of a customer without history: no turns, a
\* session id nothing holds yet, no summary, useHybrid = FALSE; no turn and
\* no profile is written and no compaction is started.
C15_ErrorGivesNoHistoryPlan ==
    [][\A r \in requests : \A u \in requests' :
          (/\ r.pc \in {"context", "fetch"}
           /\ r \notin requests'
           /\ u.k = r.k
           /\ u.state = "Error") =>
              /\ u.pc = "answer"
              /\ u.history = <<>>
              /\ u.session_id \notin HeldIds
              /\ u.customer_summary = None
              /\ u.use_hybrid = FALSE
              /\ chat_history' = chat_history
              /\ customer_memory' = customer_memory
              /\ summarizers' = summarizers]_vars

\* C15 witness: the turn fetch of a customer with an active session of 3
\* turns has failed and the request holds the plan of the error path
C15_Witness ==
    \E r \in Answered :
        /\ r.state = "Error"
        /\ r.result.session_turn_count = 3
        /\ r.result.session_id # 0
        /\ r.session_id # r.result.session_id
        /\ r.history = <<>>

\* the customer's total_conversations (0 without a customer_memory row)
TotalConversations(p) ==
    IF customer_memory[p] = NoRow THEN 0
    ELSE customer_memory[p].total_conversations

\* C16: every step either stores one more turn of a customer and raises the
\* customer's total_conversations by exactly 1, or changes neither; a save
\* that ends without storing its turn changes no request and no profile; and
\* total_conversations equals the number of the customer's stored turns
\* before and after every step.
C16_AppendAllOrNothing ==
    [][/\ \A p \in Phones :
             /\ TotalConversations(p) = Len(PhoneRows(p))
             /\ TotalConversations(p)' = Len(PhoneRows(p)')
             /\ \/ /\ PhoneRows(p)' = PhoneRows(p)
                   /\ TotalConversations(p)' = TotalConversations(p)
                \/ /\ Len(PhoneRows(p)') = Len(PhoneRows(p)) + 1
                   /\ TotalConversations(p)' = TotalConversations(p) + 1
       /\ \A t \in saves :
             (t \notin saves' /\ t.pc = "new") =>
                 \/ \E u \in saves' : u.k = t.k /\ u.pc = "executed"
                 \/ /\ chat_history' = chat_history
                    /\ customer_memory' = customer_memory
                    /\ requests' = requests
       /\ \A t \in saves :
             (t \notin saves' /\ t.pc = "executed") =>
                 \/ /\ Len(chat_history') = Len(chat_history) + 1
                    /\ requests' = requests
                 \/ /\ chat_history' = chat_history
                    /\ customer_memory' = customer_memory
                    /\ requests' = requests]_vars

\* C16 witness: the transaction that counted 6 turns was rolled back after
\* it had run its statements: the compaction it started is there, the
\* session holds 5 turns and the counter says 5
C16_Witness ==
    \E t \in summarizers :
        /\ t.current_turn = 6
        /\ SessionCount(t.customer_phone, t.session_id) = 5
        /\ saves = {}
        /\ TotalConversations(t.customer_phone) = 5
        /\ Len(PhoneRows(t.customer_phone)) = 5

\* C17: when a save of a customer commits while another save of the same
\* customer is pending, its turn is appended to the stored turns, none of
\* which is lost, the customer's total_conversations grows by exactly 1 from
\* its latest value, and the other save stays pending with its own turn
\* still to be stored.
C17_ConcurrentSavesBothCount ==
    [][\A t \in saves : \A u \in saves :
          (/\ t # u
           /\ t.customer_phone = u.customer_phone
           /\ t \notin saves'
           /\ chat_history' # chat_history) =>
              /\ chat_history' = Append(chat_history,
                     [customer_phone |-> t.customer_phone,
                      session_id |-> t.session_id,
                      created_at |-> t.created_at,
                      id |-> Len(PhoneRows(t.customer_phone)) + 1])
              /\ TotalConversations(t.customer_phone)'
                     = TotalConversations(t.customer_phone) + 1
              /\ TotalConversations(t.customer_phone)'
                     = Len(PhoneRows(t.customer_phone)')
              /\ u \in saves']_vars

\* C17 witness: two saves of the same customer and session are pending
\* together, one has run its statements and holds the row lock
C17_Witness ==
    \E t \in saves : \E u \in saves :
        /\ t # u
        /\ t.customer_phone = u.customer_phone
        /\ t.session_id = u.session_id
        /\ t.pc = "executed"
        /\ u.pc = "new"
        /\ t.session_turn_count = 2

\* C18: a compaction that ends, at whichever of its steps, either has written
\* its whole result or has written nothing: in the second case summary and
\* last_summary_turn keep their values; in both cases the stored turns stay,
\* the pending saves stay as they are and no save is started.
C18_FailedCompactionWritesNothing ==
    [][\A t \in summarizers :
          (/\ t \notin summarizers'
           /\ \A u \in summarizers' \ summarizers : u.pc # "save") =>
              /\ \/ customer_memory' = customer_memory
                 \/ /\ t.pc = "save"
                    /\ customer_memory'[t.customer_phone] =
                           SummaryUpsert(customer_memory[t.customer_phone],
                               SummaryOf(t.session_id, t.conversations), now,
                               last_summary_turn_of(t.current_turn,
                                                    t.conversations))
              /\ chat_history' = chat_history
              /\ saves' = saves
              /\ requests' = requests]_vars

\* C18 witness: the compaction triggered by turn 6 has failed: the session
\* holds its 6 turns, nothing is pending, and the profile still holds the
\* sentinel summary and no watermark
C18_Witness ==
    \E p \in Phones :
        /\ ContextQuery(p).session_turn_count = 6
        /\ saves = {}
        /\ summarizers = {}
        /\ customer_memory[p].summary = NewCustomer
        /\ customer_memory[p].last_summary_turn = 0
        /\ customer_memory[p].total_conversations = 6

\* the stored pair of summary and watermark (the initial pair without a row)
StoredPair(p) ==
    IF customer_memory[p] = NoRow THEN <<NewCustomer, 0>>
    ELSE <<customer_memory[p].summary, customer_memory[p].last_summary_turn>>

\* C19: the stored pair (summary, last_summary_turn) starts as the initial
\* pair, and every step that changes one of the two is the write of one
\* compaction, which sets both: the summary to the text that compaction made
\* and the watermark to the one that compaction computed.  No append changes
\* either of them.
C19_PairWrittenTogether ==
    [][\A p \in Phones :
          /\ chat_history = <<>> => StoredPair(p) = <<NewCustomer, 0>>
          /\ StoredPair(p)' # StoredPair(p) =>
                \E t \in summarizers :
                    /\ t.customer_phone = p
                    /\ t.pc = "save"
                    /\ t \notin summarizers'
                    /\ chat_history' = chat_history
                    /\ StoredPair(p)' =
                           <<SummaryOf(t.session_id, t.conversations),
                             last_summary_turn_of(t.current_turn,
                                                  t.conversations)>>]_vars

\* C19 witness: the compaction of turn 6 has written last, after it had
\* loaded 11 turns, and the compaction of turn 11 is no longer pending
C19_Witness ==
    \E p \in Phones :
        /\ StoredPair(p) = <<SummaryOf(CurrentSession(p), 11), 5>>
        /\ summarizers = {}

\* C20: the session read of GetContext treats the customer as without
\* history iff no turn of the customer is stored, as active iff the most
\* recent turn is at most 24 hours old (exactly 24 hours included) and as
\* expired iff it is more than 24 hours old; it keeps the session id of the
\* most recent turn when active and takes a session id no stored turn
\* carries otherwise.
C20_ClassifiedByAge ==
    [][\A r \in requests : \A u \in requests' :
          (r.pc = "context" /\ r \notin requests' /\ u.k = r.k) =>
              LET rows == PhoneRows(r.customer_phone)
                  last == rows[Len(rows)]
              IN  /\ u.state \in {"NoHistory", "Active", "Expired"}
                  /\ u.state = "NoHistory" <=> rows = <<>>
                  /\ u.state = "Active" <=>
                         (rows # <<>> /\ now - last.created_at <= 24)
                  /\ u.state = "Expired" <=>
                         (rows # <<>> /\ now - last.created_at > 24)
                  /\ u.state = "Active" => u.session_id = last.session_id
                  /\ u.state # "Active" => u.session_id \notin StoredIds]_vars

\* C20 witness: a session read exactly 24 hours after the most recent turn
\* has kept the session
C20_Witness ==
    \E r \in requests :
        /\ r.state = "Active"
        /\ r.now_malaysia - r.result.created_at = 24
        /\ r.session_id = r.result.session_id

\* the stored turns of customer p, read off the table directly
OwnRows(p) == SelectSeq(chat_history, LAMBDA x : x.customer_phone = p)

\* what the session read returns when it is given the customer's own turns
\* and the customer's own profile row only
OwnQuery(p) ==
    LET own == OwnRows(p)
        lc == own[Len(own)]
        cd == customer_memory[p]
    IN  IF own = <<>> THEN NoResult
        ELSE [session_id |-> lc.session_id,
              created_at |-> lc.created_at,
              session_turn_count |->
                  Len(SelectSeq(own, LAMBDA x : x.session_id = lc.session_id)),
              summary |-> IF cd = NoRow THEN None ELSE cd.summary,
              total_conversations |->
                  IF cd = NoRow THEN 0 ELSE cd.total_conversations,
              last_summary_turn |->
                  IF cd = NoRow THEN 0 ELSE cd.last_summary_turn]

\* the newest limit turns of session sid among the customer's own turns
OwnFetch(p, sid, limit) ==
    LET rows == SelectSeq(OwnRows(p), LAMBDA x : x.session_id = sid)
        n == Len(rows)
    IN  Ids(SubSeq(rows, Max(1, n - limit + 1), n))

\* C21: a step changes the stored turns or the profile row of a customer
\* only if it is the step of a save or of a compaction of that customer; and
\* what a GetContext of a customer reads and fetches, and what a compaction
\* of a customer loads, is determined by that customer's own turns and
\* profile row, whatever the other customer's coroutines have done.
C21_NoInterference ==
    [][/\ \A p \in Phones :
             (OwnRows(p)' # OwnRows(p)
                 \/ customer_memory'[p] # customer_memory[p]) =>
                 \/ \E t \in saves : t.customer_phone = p /\ t \notin saves'
                 \/ \E t \in summarizers :
                        t.customer_phone = p /\ t \notin summarizers'
       /\ \A r \in requests : \A u \in requests' :
             (r \notin requests' /\ u.k = r.k) =>
                 /\ r.pc = "context" => u.result = OwnQuery(r.customer_phone)
                 /\ r.pc = "fetch" =>
                        u.history = OwnFetch(r.customer_phone,
                                             r.fetch_session, r.limit)
       /\ \A t \in summarizers : \A u \in summarizers' \ summarizers :
             (t \notin summarizers' /\ t.pc = "load" /\ u.pc = "save") =>
                 u.conversations =
                     Len(SelectSeq(OwnRows(t.customer_phone),
                                   LAMBDA x : x.session_id = t.session_id))
      ]_vars

\* C21 witness: a request of one customer holds the 2 turns of that customer
\* while turns of the other customer lie between them in the table and a
\* save of the other customer has run its statements
C21_Witness ==
    \E r \in Answered :
        /\ r.history = <<1, 2>>
        /\ Len(OwnRows(r.customer_phone)) = 2
        /\ \E i, j, k \in 1..Len(chat_history) :
              /\ i < j
              /\ j < k
              /\ chat_history[i].customer_phone = r.customer_phone
              /\ chat_history[j].customer_phone # r.customer_phone
              /\ chat_history[k].customer_phone = r.customer_phone
        /\ \E t \in saves :
              t.customer_phone # r.customer_phone /\ t.pc = "executed"

\* C22: every step leaves each stored turn as it is and where it is: the
\* table after the step begins with the table before it, so the turns of a
\* customer only grow and the turn count of a session never decreases.
C22_TurnsAppendOnly ==
    [][/\ Len(chat_history') >= Len(chat_history)
       /\ SubSeq(chat_history', 1, Len(chat_history)) = chat_history
       /\ \A p \in Phones : \A sid \in StoredIds :
             SessionCount(p, sid)' >= SessionCount(p, sid)]_vars

\* C22 witness: two sessions are stored, a compaction has written, a
\* GetContext has returned turns and a save has run its statements
C22_Witness ==
    /\ Len(chat_history) >= 7
    /\ Cardinality(StoredIds) = 2
    /\ \E p \in Phones : StoredPair(p)[1] # NewCustomer
    /\ \E r \in Answered : r.history # <<>>
    /\ \E t \in saves : t.pc = "executed"

\* C23: a GetContext that has read an expired session of more than 5 turns
\* has read a stored summary other than the sentinel and returns a summary.
C23_ExpiredLongHasSummary ==
    \A r \in Answered :
        (ReadExpired(r) /\ r.result.session_turn_count > 5) =>
            /\ r.result.summary # NewCustomer
            /\ r.customer_summary # None

\* C24: in every state in which the customer's current session is active,
\* the stored last_summary_turn is at most the turn count of that session
\* (a watermark written for an earlier session is not kept for a later one).
C24_WatermarkWithinSession ==
    \A p \in Phones :
        LET res == ContextQuery(p)
        IN  (res # NoResult /\ ~session_expired(res.created_at, now)) =>
                res.last_summary_turn <= res.session_turn_count

\* C25: as long as all turns of a customer are recorded within 24 hours,
\* they all carry the same session id.
C25_OneSessionWithinADay ==
    \A p \in Phones :
        \A i, j \in 1..Len(PhoneRows(p)) :
            PhoneRows(p)[j].created_at - PhoneRows(p)[i].created_at <= 24 =>
                PhoneRows(p)[i].session_id = PhoneRows(p)[j].session_id

\* C26: a compaction triggered by an append exists only if that append is
\* stored or its transaction is still open: after a rollback of the append
\* that counted n turns there is no compaction for turn n.
C26_CompactionOnlyForCommitted ==
    \A t \in summarizers :
        t.current_turn # 0 =>
            \/ SessionCount(t.customer_phone, t.session_id) >= t.current_turn
            \/ \E u \in saves :
                  /\ u.pc = "executed"
                  /\ u.customer_phone = t.customer_phone
                  /\ u.session_id = t.session_id
                  /\ u.session_turn_count = t.current_turn

\* the compaction t was triggered five turns after one that never landed:
\* the watermark is still below that one's and it is no longer pending
AfterLostCompaction(t) ==
    /\ t.pc = "save"
    /\ t.current_turn >= hybrid_memory_threshold + max_conversation_turns
    /\ StoredPair(t.customer_phone)[2] < t.current_turn - 6
    /\ \A u \in summarizers :
          ~ /\ u.customer_phone = t.customer_phone
            /\ u.session_id = t.session_id
            /\ u.current_turn = t.current_turn - max_conversation_turns

\* the step in which the compaction t writes its summary and watermark
Lands(t) ==
    /\ t \in summarizers
    /\ summarizers' = summarizers \ {t}
    /\ customer_memory' # customer_memory

\* C27 (as stated): when the compaction triggered at n never landed, the
\* compaction triggered at n + 5 has read every turn up to n + 4 at least,
\* its landing sets last_summary_turn = n + 4, and right after the landing
\* the session's turn count exceeds the watermark by at most 5
C27_RecoveredWithinFive ==
    [][\A t \in summarizers :
          (AfterLostCompaction(t) /\ Lands(t)) =>
              /\ t.conversations >= t.current_turn - 1
              /\ StoredPair(t.customer_phone)[2]' = t.current_turn - 1
              /\ SessionCount(t.customer_phone, t.session_id)'
                     - StoredPair(t.customer_phone)[2]' <= max_conversation_turns
      ]_vars

\* C27 (amended): when the compaction triggered at n never landed, the
\* compaction triggered at n + 5 has read every turn up to n + 4 at least and
\* its landing sets last_summary_turn = n + 4; the turn count then exceeds
\* the watermark by at most 5 exactly when at most 4 turns were stored after
\* the triggering one (turn count <= n + 9)
C27_RecoveredToTrigger ==
    [][\A t \in summarizers :
          (AfterLostCompaction(t) /\ Lands(t)) =>
              /\ t.conversations >= t.current_turn - 1
              /\ StoredPair(t.customer_phone)[2]' = t.current_turn - 1
              /\ (SessionCount(t.customer_phone, t.session_id)'
                     - StoredPair(t.customer_phone)[2]' <= max_conversation_turns)
                  <=> (SessionCount(t.customer_phone, t.session_id)
                          <= t.current_turn + 4)
      ]_vars

\* the compaction of turn 6 was lost, the one of turn 11 has read the eleven
\* turns of the session and is about to land
C27_Witness ==
    \E t \in summarizers :
        /\ AfterLostCompaction(t)
        /\ t.current_turn = 11
        /\ t.conversations = 11
        /\ StoredPair(t.customer_phone)[2] = 0
        /\ ~RowLocked(t.customer_phone)

\* the j-th turn of session sid of customer p was read by the compaction
\* that produced the stored summary
InStoredSummary(p, sid, j) ==
    /\ StoredPair(p)[1].session_id = sid
    /\ j <= StoredPair(p)[1].turns

\* C28: when GetContext has answered for an active session read with at
\* least 6 turns, not appended to since, and the stored summary and watermark
\* are the ones it read, every stored turn of the session is among the turns
\* returned or was read by the compaction that produced the stored summary
C28_NoMemoryGap ==
    \A r \in Answered :
        (/\ ReadActive(r)
         /\ r.result.session_turn_count >= hybrid_memory_threshold
         /\ Unchanged(r)
         /\ StoredPair(r.customer_phone)
               = <<r.result.summary, r.result.last_summary_turn>>) =>
            LET rows == SessionRows(r.customer_phone, r.result.session_id)
            IN  \A j \in 1..Len(rows) :
                   \/ \E i \in 1..Len(r.history) : r.history[i] = rows[j].id
                   \/ InStoredSummary(r.customer_phone,
                                      r.result.session_id, j)

\* C29: when GetContext has answered for an active session read with fewer
\* than 6 turns, the turns it returns are the turns the session held at the
\* read, all of them and no other, whether or not a turn was committed
\* between the read and the fetch
C29_ConsistentSnapshot ==
    \A r \in Answered :
        (ReadActive(r)
           /\ r.result.session_turn_count < hybrid_memory_threshold) =>
            r.history =
                Ids(SubSeq(SessionRows(r.customer_phone, r.result.session_id),
                           1, r.result.session_turn_count))

\* the compaction of turn count c of session sid of customer p has been
\* started before: it is pending, or it has written its watermark
TriggerFired(p, sid, c) ==
    \/ \E t \in summarizers :
          /\ t.customer_phone = p
          /\ t.session_id = sid
          /\ t.current_turn = c
    \/ /\ StoredPair(p)[1].session_id = sid
       /\ StoredPair(p)[2] = c - 1

\* C30: the turn count an append observes is the number of committed turns
\* of its session plus its own row, and when that count is a threshold
\* (6, 11, ...) no earlier append of the session has observed it: its
\* compaction has not been started before
C30_EachThresholdObservedOnce ==
    [][\A u \in saves' :
          (u.pc = "executed" /\ u \notin saves) =>
              /\ u.session_turn_count =
                     SessionCount(u.customer_phone, u.session_id) + 1
              /\ should_trigger_summary(u.session_turn_count) =>
                     ~TriggerFired(u.customer_phone, u.session_id,
                                   u.session_turn_count)
      ]_vars

\* the places in the table of the turns of session sid of customer p
TurnPlaces(p, sid) ==
    {i \in 1..Len(chat_history) :
        /\ chat_history[i].customer_phone = p
        /\ chat_history[i].session_id = sid}

\* the place of the turn of (p, sid) that has exactly `newer` turns of
\* (p, sid) created after it
PlaceFromEnd(p, sid, newer) ==
    CHOOSE q \in TurnPlaces(p, sid) :
        Cardinality({x \in TurnPlaces(p, sid) : x > q}) = newer

\* C31: for every customer, session and limit >= 1, the fetch returns
\* min(limit, n) turns, n being the number of turns stored for that customer
\* in that session; the i-th of them is the stored turn of that customer and
\* session that has exactly min(limit, n) - i later turns of the same
\* customer and session, so they are the most recent ones, oldest first, and
\* none is a turn of another session or customer
C31_FetchRecentTurns ==
    \A p \in Phones : \A sid \in 1..MaxSessions : \A limit \in 1..MaxLimit :
        LET history == _fetch_conversation_history(p, sid, limit)
            k == Min(limit, Cardinality(TurnPlaces(p, sid)))
        IN  /\ Len(history) = k
            /\ \A i \in 1..k :
                  history[i] = chat_history[PlaceFromEnd(p, sid, k - i)].id

\* C31 witness: a session of 3 turns with a turn of another customer stored
\* between them, of which a fetch with limit 2 returns the last two
C31_Witness ==
    \E p \in Phones : \E sid \in 1..MaxSessions :
        /\ Cardinality(TurnPlaces(p, sid)) = 3
        /\ \E j \in 1..Len(chat_history) :
              /\ chat_history[j].customer_phone # p
              /\ PlaceFromEnd(p, sid, 2) < j
              /\ j < PlaceFromEnd(p, sid, 0)
        /\ _fetch_conversation_history(p, sid, 2) = <<2, 3>>
        /\ _fetch_conversation_history(p, sid, MaxLimit) = <<1, 2, 3>>

\* the columns of a customer_memory row
Columns ==
    {"summary", "total_conversations", "first_interaction",
     "last_interaction", "customer_type", "interaction_frequency",
     "updated_at", "last_summary_turn"}

\* the columns in which the row of customer p differs after the step
ChangedColumns(p) ==
    {c \in Columns : customer_memory'[p][c] # customer_memory[p][c]}

\* C32: when a step changes an existing customer_memory row, it is either
\* the commit of an append of that customer, which changes no column other
\* than total_conversations, last_interaction, customer_type,
\* interaction_frequency and updated_at, or the write of a compaction of that
\* customer, which changes no column other than summary, last_summary_turn
\* and updated_at
C32_WritersDisjoint ==
    [][\A p \in Phones :
          (customer_memory[p] # NoRow
             /\ customer_memory'[p] # customer_memory[p]) =>
              /\ customer_memory'[p] # NoRow
              /\ \/ /\ \E t \in saves :
                          /\ t.customer_phone = p
                          /\ t.pc = "executed"
                          /\ t \notin saves'
                    /\ Len(chat_history') = Len(chat_history) + 1
                    /\ summarizers' = summarizers
                    /\ ChangedColumns(p) \subseteq
                          {"total_conversations", "last_interaction",
                           "customer_type", "interaction_frequency",
                           "updated_at"}
                 \/ /\ \E t \in summarizers :
                          /\ t.customer_phone = p
                          /\ t.pc = "save"
                          /\ t \notin summarizers'
                    /\ chat_history' = chat_history
                    /\ saves' = saves
                    /\ ChangedColumns(p) \subseteq
                          {"summary", "last_summary_turn", "updated_at"}
      ]_vars

\* C32 witness: a row first written at hour 0 that both writers have written
\* since: the compaction of turn 6 left summary and watermark 5, an append
\* made 25 hours later counted the 7th conversation
C32_Witness ==
    \E p \in Phones :
        /\ customer_memory[p] # NoRow
        /\ customer_memory[p].summary # NewCustomer
        /\ customer_memory[p].last_summary_turn = 5
        /\ customer_memory[p].total_conversations = 7
        /\ customer_memory[p].first_interaction = 0
        /\ customer_memory[p].last_interaction = 25
        /\ customer_memory[p].interaction_frequency = "medium"

\* the summary stored for customer p
StoredSummary(p) == StoredPair(p)[1]

\* C33: a step in which a GetContext of a customer proceeds (the read of an
\* expired session and the opening of a new one included) and a step in which
\* an append of the customer commits (the first turn of a new session
\* included) leave the customer's stored summary as it is; and no step at all
\* replaces a stored summary that is not the sentinel by the sentinel
C33_SummaryCarriedForward ==
    [][\A p \in Phones :
          /\ StoredSummary(p) # NewCustomer => StoredSummary(p)' # NewCustomer
          /\ (\E r \in requests : r.customer_phone = p /\ r \notin requests')
                => StoredSummary(p)' = StoredSummary(p)
          /\ (\E t \in saves : t.customer_phone = p /\ t \notin saves')
                => StoredSummary(p)' = StoredSummary(p)
      ]_vars

\* C33 witness: the summary made in session 1 is still the stored one after
\* that session expired and the first turn of session 2 was appended 25 hours
\* later
C33_Witness ==
    \E p \in Phones :
        /\ StoredSummary(p) # NewCustomer
        /\ StoredSummary(p).session_id = 1
        /\ CurrentSession(p) = 2
        /\ SessionCount(p, 2) = 1
        /\ customer_memory[p].last_interaction = 25
        /\ summarizers = {}

\* C34: whenever GetContext has answered with a summary, useHybrid is TRUE
\* in the same answer, the summary its session read found stored is neither
\* missing nor the sentinel, and the text returned is that stored summary;
\* so no summary is returned with useHybrid = FALSE and the sentinel is
\* never returned
C34_SummaryOnlyWhenHybrid ==
    \A r \in Answered :
        r.customer_summary # None =>
            /\ r.use_hybrid
            /\ r.result # NoResult
            /\ r.result.summary # None
            /\ r.result.summary # NewCustomer
            /\ r.customer_summary.summary = r.result.summary
            /\ r.customer_summary.summary # NewCustomer

\* C34 witness: an expired session of at most 5 turns answered with its
\* turns, the stored summary and useHybrid = TRUE
C34_Witness ==
    \E r \in Answered :
        /\ r.state = "Expired"
        /\ r.result.session_turn_count <= max_conversation_turns
        /\ r.history # <<>>
        /\ r.customer_summary # None
        /\ r.use_hybrid

====
